---- MODULE Spec2Model ----
(***************************************************************************)
(* Model of signaling-server.js: the WebSocket rendezvous server of the    *)
(* distributed neural network.  The state is the two maps the handlers      *)
(* mutate (peerRegistry, connections), the transport state of every         *)
(* WebSocket, the clock read by Date.now(), and the messages the last        *)
(* handled event sent.  Every handler is one action: node runs a handler     *)
(* to completion before the next event is taken from the event loop.         *)
(***************************************************************************)
EXTENDS Integers, Sequences, FiniteSets, TLC

(* ------------------------------ bounds --------------------------------- *)
\* sockets and device ids that exist at all
NumConns == 3
NumIds == 3
\* sockets and device ids taking part in the full lifecycle specification
LiveConns == 2
LiveIds == 2
\* the clock stops here
MaxTime == 61

(* ------------------------- program constants --------------------------- *)
\* const timeout = 60000 (milliseconds); the model counts seconds
timeout == 60
\* setInterval(..., 30000)
sweepInterval == 30

Conns == 1..NumConns
DeviceIds == 1..NumIds
\* a falsy device_id (missing or "") and the absence of a Map entry
NoId == 0
NoConn == 0
\* the durations by which the clock advances between two events
TickSteps == {60, 61}

\* a field that is undefined in a JavaScript object
Undefined == {"undefined"}
Caps == {"x", "y"}
Specs == {"s", "t"}
\* signaling_data values: two opaque payloads and null/missing
Null == "null"
Payloads == {"P", "Q"}

\* peer_info objects a register message may carry; NoInfo is a missing one
NoInfo == [caps |-> {"missing"}, specs |-> {"missing"}]
BasicInfos == {[caps |-> {"x"}, specs |-> {"s"}]}
\* the register messages of the lifecycle: one with each device id, one with
\* a falsy device_id and one without peer_info
RegisterInputs ==
    {<<d, info>> : d \in 1..LiveIds, info \in BasicInfos}
    \cup {<<NoId, info>> : info \in BasicInfos}
    \cup {<<1, NoInfo>>}
PeerInfos ==
    { [caps |-> Undefined,  specs |-> Undefined],
      [caps |-> {"x"},      specs |-> {"s"}],
      [caps |-> {"x", "y"}, specs |-> {"t"}],
      [caps |-> {"y"},      specs |-> {"s", "t"}] }

\* the filters object of a discover message; NoFilters is data.filters undefined
NoFilters == [required_capabilities |-> Undefined, specializations |-> Undefined,
              min_reputation |-> Undefined]
FilterValues == {Undefined, {}, {"x"}, {"x", "y"}}
SpecFilterValues == {{}, {"s", "t"}}
\* min_reputation: absent, or the 0.8 of the deployment guide
ReputationValues == {Undefined, {"0.8"}}
Filters ==
    [required_capabilities : FilterValues, specializations : {Undefined},
     min_reputation : {Undefined}]
    \cup [required_capabilities : {Undefined}, specializations : SpecFilterValues,
          min_reputation : {Undefined}]
    \cup {[required_capabilities |-> {"x"}, specializations |-> {"s", "t"},
           min_reputation |-> Undefined]}
    \cup [required_capabilities : {Undefined, {"x", "y"}}, specializations : {Undefined},
          min_reputation : {{"0.8"}}]

VARIABLES
    peerRegistry,   \* device_id -> { ws, info, status }, status "none" = no entry
    order,          \* insertion order of the keys of peerRegistry
    connections,    \* ws -> device_id, NoId = no entry
    connState,      \* ws -> "open" | "closing" | "errored" | "closed"
    now,            \* Date.now()
    lastSweep,      \* time the interval timer last fired (0 = server start)
    closedSendThrows, \* whether ws.send on a socket that is not open throws
    running,        \* FALSE once an exception escaped a callback: the process exited
    outbox,         \* messages delivered by the last handled event
    lastOp          \* the last handled event and its inputs

vars == <<peerRegistry, order, connections, connState, now, lastSweep,
          closedSendThrows, running, outbox, lastOp>>

NoPeer == [status |-> "none", ws |-> NoConn, caps |-> Undefined,
           specs |-> Undefined, last_seen |-> 0, registered_at |-> 0]

Msg(to, type, dev, n, text, payload, peers) ==
    [to |-> to, type |-> type, dev |-> dev, n |-> n, text |-> text,
     payload |-> payload, peers |-> peers]

ErrorMsg(to, text) == Msg(to, "error", NoId, 0, text, Null, <<>>)

\* the event handled last: its kind, the socket it came from and its inputs
NoOp == [op |-> "init", c |-> NoConn, d |-> NoId, target |-> NoId,
         payload |-> Null, filters |-> NoFilters, info |-> NoInfo]

\* Array.prototype.includes on a field that may be undefined (?.)
Includes(field, x) == field # Undefined /\ x \in field

\* peerRegistry.size
Size == Len(order)

\* Array.from(peerRegistry.values()).filter(p => p.status === 'online').length
OnlineCount(reg) == Cardinality({d \in DeviceIds : reg[d].status = "online"})

\* a ws object no map refers to any more stands for a brand new socket
Referenced(c) ==
    \/ connections[c] # NoId
    \/ \E d \in DeviceIds : peerRegistry[d].status # "none" /\ peerRegistry[d].ws = c

(* --------------------------- broadcastToAllExcept ----------------------- *)
\* the records the loop sends to: bound to another ws and online
Recipient(reg, excludeWs, d) ==
    reg[d].status # "none" /\ reg[d].ws # excludeWs /\ reg[d].status = "online"

SendFails(reg, d) == connState[reg[d].ws] # "open"

KeepOnline(reg, excludeWs) == reg

\* registry after the loop: a recipient whose send threw is set offline
BroadcastReg(reg, excludeWs) ==
    [d \in DeviceIds |->
        IF Recipient(reg, excludeWs, d) /\ SendFails(reg, d) /\ closedSendThrows
        THEN [reg[d] EXCEPT !.status = "offline"]
        ELSE reg[d]]

RECURSIVE BroadcastOutFrom(_, _, _, _, _, _, _)
BroadcastOutFrom(i, reg, excludeWs, type, dev, n, text) ==
    IF i > Len(order) THEN <<>>
    ELSE LET d == order[i]
             rest == BroadcastOutFrom(i + 1, reg, excludeWs, type, dev, n, text)
         IN IF Recipient(reg, excludeWs, d) /\ ~SendFails(reg, d)
            THEN <<Msg(reg[d].ws, type, dev, n, text, Null, <<>>)>> \o rest
            ELSE rest

\* messages the loop delivers, in registry order
BroadcastOut(reg, excludeWs, type, dev, n, text) ==
    BroadcastOutFrom(1, reg, excludeWs, type, dev, n, text)

(* ------------------------------- Init ----------------------------------- *)
Init ==
    /\ peerRegistry = [d \in DeviceIds |-> NoPeer]
    /\ order = <<>>
    /\ connections = [c \in Conns |-> NoId]
    /\ connState = [c \in Conns |-> "closed"]
    /\ now = 0
    /\ lastSweep = 0
    /\ closedSendThrows \in BOOLEAN
    /\ running = TRUE
    /\ outbox = <<>>
    /\ lastOp = NoOp

(* ------------------------------ actions --------------------------------- *)
\* wss.on('connection'): a new socket is accepted
Connect(c) ==
    /\ running
    /\ connState[c] = "closed"
    /\ ~Referenced(c)
    /\ connState' = [connState EXCEPT ![c] = "open"]
    /\ outbox' = <<>>
    /\ lastOp' = [NoOp EXCEPT !.op = "connect", !.c = c]
    /\ UNCHANGED <<peerRegistry, order, connections, now, lastSweep, closedSendThrows, running>>

\* the clock advances between two events
Tick(step) ==
    /\ running
    /\ now + step <= MaxTime
    /\ now' = now + step
    /\ outbox' = <<>>
    /\ lastOp' = [NoOp EXCEPT !.op = "tick"]
    /\ UNCHANGED <<peerRegistry, order, connections, connState, lastSweep, closedSendThrows, running>>

\* the keys of peerRegistry after peerRegistry.set(device_id, ...): a new key
\* goes last, a known key keeps its place
OrderAfterSet(device_id) ==
    IF peerRegistry[device_id].status = "none"
    THEN Append(order, device_id) ELSE order

SizeBeforeSet(device_id) == Len(order)

\* peerRegistry.size as read for the registered reply and for peer_joined
SizeAfterSet(device_id) == Len(OrderAfterSet(device_id))

MissingDeviceId(device_id, peer_info) == device_id = NoId

\* !device_id || !peer_info
MissingFields(device_id, peer_info) == device_id = NoId \/ peer_info = NoInfo

\* handlePeerRegistration, reached through handleMessage case 'register'
handlePeerRegistration(c, device_id, peer_info) ==
    /\ running
    /\ connState[c] = "open"
    /\ lastOp' = [NoOp EXCEPT !.op = "register", !.c = c, !.d = device_id,
                                !.info = peer_info]
    /\ IF MissingFields(device_id, peer_info)
       THEN /\ outbox' = <<ErrorMsg(c, "missing")>>
            /\ UNCHANGED <<peerRegistry, order, connections>>
       ELSE LET registrationInfo ==
                    [status |-> "online", ws |-> c, caps |-> peer_info.caps,
                     specs |-> peer_info.specs, last_seen |-> now,
                     registered_at |-> now]
                reg1 == [peerRegistry EXCEPT ![device_id] = registrationInfo]
                size1 == SizeAfterSet(device_id)
            IN /\ order' = OrderAfterSet(device_id)
               /\ connections' = [connections EXCEPT ![c] = device_id]
               /\ peerRegistry' = BroadcastReg(reg1, c)
               /\ outbox' = <<Msg(c, "registered", device_id, size1, "", Null, <<>>)>>
                            \o BroadcastOutFrom(1, reg1, c, "peer_joined", device_id, size1, "")
    /\ UNCHANGED <<connState, now, lastSweep, closedSendThrows, running>>

AnyCapability(filters, peerData) ==
    filters.required_capabilities = Undefined
    \/ \E cap \in filters.required_capabilities : Includes(peerData.caps, cap)

\* the filter test of handlePeerDiscovery for one record
MatchesCapabilities(filters, peerData) ==
    filters.required_capabilities = Undefined
    \/ \A cap \in filters.required_capabilities : Includes(peerData.caps, cap)

MatchesSpecializations(filters, peerData) ==
    filters.specializations = Undefined
    \/ \E spec \in filters.specializations : Includes(peerData.specs, spec)

AvailableAboveReputation(device_id, filters, peerId) ==
    /\ peerId # device_id
    /\ peerRegistry[peerId].status = "online"
    /\ MatchesCapabilities(filters, peerRegistry[peerId])
    /\ MatchesSpecializations(filters, peerRegistry[peerId])
    /\ filters.min_reputation = Undefined

\* a record passes: min_reputation is never read
Available(device_id, filters, peerId) ==
    /\ peerRegistry[peerId].status # "none"
    /\ peerId # device_id
    /\ peerRegistry[peerId].status = "online"
    /\ MatchesCapabilities(filters, peerRegistry[peerId])
    /\ MatchesSpecializations(filters, peerRegistry[peerId])

\* availablePeers, in registry iteration order
AvailablePeers(device_id, filters) ==
    SelectSeq(order, LAMBDA peerId : Available(device_id, filters, peerId))

handlePeerDiscoveryTouching(c, filters) ==
    /\ running
    /\ connState[c] = "open"
    /\ lastOp' = [NoOp EXCEPT !.op = "discover", !.c = c, !.d = connections[c],
                                !.filters = filters]
    /\ IF connections[c] = NoId
       THEN /\ outbox' = <<ErrorMsg(c, "not_registered")>>
            /\ UNCHANGED peerRegistry
       ELSE /\ outbox' = <<Msg(c, "discovery_result", NoId,
                               Len(AvailablePeers(connections[c], filters)),
                               "", Null, AvailablePeers(connections[c], filters))>>
            /\ peerRegistry' = [peerRegistry EXCEPT ![connections[c]].last_seen = now]
    /\ UNCHANGED <<order, connections, connState, now, lastSweep, closedSendThrows, running>>

\* handlePeerDiscovery, reached through handleMessage case 'discover'
handlePeerDiscovery(c, filters) ==
    /\ running
    /\ connState[c] = "open"
    /\ lastOp' = [NoOp EXCEPT !.op = "discover", !.c = c, !.d = connections[c],
                                !.filters = filters]
    /\ IF connections[c] = NoId
       THEN outbox' = <<ErrorMsg(c, "not_registered")>>
       ELSE LET availablePeers == AvailablePeers(connections[c], filters)
            IN outbox' = <<Msg(c, "discovery_result", NoId, Len(availablePeers),
                               "", Null, availablePeers)>>
    /\ UNCHANGED <<peerRegistry, order, connections, connState, now, lastSweep,
                   closedSendThrows, running>>

TargetKnown(target_device_id) ==
    /\ target_device_id # NoId
    /\ peerRegistry[target_device_id].status # "none"

\* the target lookup of handleWebRTCSignaling
TargetReachable(target_device_id) ==
    /\ target_device_id # NoId
    /\ peerRegistry[target_device_id].status # "none"
    /\ peerRegistry[target_device_id].status = "online"

ClaimedDeviceId(c, target_device_id) == target_device_id

\* source_device_id = connections.get(ws): no field of the message is read
SourceDeviceId(c, target_device_id) == connections[c]

\* handleWebRTCSignaling, reached through handleMessage case 'signal'; an
\* exception thrown inside it is caught by the 'message' listener, which
\* answers 'Invalid JSON format'
handleWebRTCSignaling(c, target_device_id, signaling_data) ==
    /\ running
    /\ connState[c] = "open"
    /\ lastOp' = [NoOp EXCEPT !.op = "signal", !.c = c, !.d = connections[c],
                                !.target = target_device_id,
                                !.payload = signaling_data]
    /\ outbox' =
          IF connections[c] = NoId THEN <<ErrorMsg(c, "not_registered")>>
          ELSE IF ~TargetReachable(target_device_id)
          THEN <<ErrorMsg(c, "target_unreachable")>>
          ELSE IF signaling_data = Null
          THEN <<ErrorMsg(c, "invalid_json")>>
          ELSE IF connState[peerRegistry[target_device_id].ws] = "open"
          THEN <<Msg(peerRegistry[target_device_id].ws, "webrtc_signal",
                     SourceDeviceId(c, target_device_id), 0, "",
                     signaling_data, <<>>)>>
          ELSE IF closedSendThrows
          THEN <<ErrorMsg(c, "invalid_json")>>
          ELSE <<>>
    /\ UNCHANGED <<peerRegistry, order, connections, connState, now, lastSweep,
                   closedSendThrows, running>>

\* data.capabilities || [] and data.specializations || []
OrEmpty(field) == IF field = Undefined THEN {} ELSE field

\* handleCapabilityAnnouncement, reached through handleMessage case
\* 'announce_capability'
handleCapabilityAnnouncement(c, data) ==
    /\ running
    /\ connState[c] = "open"
    /\ lastOp' = [NoOp EXCEPT !.op = "announce_capability", !.c = c,
                                !.d = connections[c], !.info = data]
    /\ IF connections[c] = NoId \/ peerRegistry[connections[c]].status = "none"
       THEN /\ outbox' = <<>>
            /\ UNCHANGED peerRegistry
       ELSE LET device_id == connections[c]
                reg1 == [peerRegistry EXCEPT ![device_id].caps = OrEmpty(data.caps),
                                             ![device_id].specs = OrEmpty(data.specs)]
            IN /\ peerRegistry' = BroadcastReg(reg1, c)
               /\ outbox' = BroadcastOut(reg1, c, "peer_updated", device_id, 0, "")
    /\ UNCHANGED <<order, connections, connState, now, lastSweep, closedSendThrows, running>>

RefreshedOnly(reg, device_id) == [reg EXCEPT ![device_id].last_seen = now]

\* peerData.info.last_seen = Date.now(); peerData.status = 'online'
Touched(reg, device_id) ==
    [reg EXCEPT ![device_id].last_seen = now, ![device_id].status = "online"]

\* handleHeartbeat, reached through handleMessage case 'heartbeat'
handleHeartbeat(c) ==
    /\ running
    /\ connState[c] = "open"
    /\ lastOp' = [NoOp EXCEPT !.op = "heartbeat", !.c = c, !.d = connections[c]]
    /\ IF connections[c] = NoId \/ peerRegistry[connections[c]].status = "none"
       THEN /\ outbox' = <<>>
            /\ UNCHANGED peerRegistry
       ELSE /\ peerRegistry' = Touched(peerRegistry, connections[c])
            /\ outbox' = <<Msg(c, "heartbeat_ack", NoId, Size, "", Null, <<>>)>>
    /\ UNCHANGED <<order, connections, connState, now, lastSweep, closedSendThrows, running>>

DeleteRecord(reg, device_id) == [reg EXCEPT ![device_id] = NoPeer]

\* peer.status = 'offline' in handleDisconnection and in the sweep: the record
\* stays in the Map
SetOffline(reg, device_id) == [reg EXCEPT ![device_id].status = "offline"]

ConnectionsKept(c) == connections

\* connections.delete(ws)
ConnectionsAfterDelete(c) == [connections EXCEPT ![c] = NoId]

\* handleDisconnection(ws): the effect on the two maps and the broadcast
handleDisconnection(c, event, state1) ==
    /\ running
    /\ connState' = state1
    /\ lastOp' = [NoOp EXCEPT !.op = event, !.c = c, !.d = connections[c]]
    /\ IF connections[c] = NoId
       THEN /\ outbox' = <<>>
            /\ UNCHANGED <<peerRegistry, connections>>
       ELSE LET device_id == connections[c]
            IN /\ connections' = ConnectionsAfterDelete(c)
               /\ IF peerRegistry[device_id].status = "none"
                  THEN /\ outbox' = <<>>
                       /\ UNCHANGED peerRegistry
                  ELSE LET reg1 == SetOffline(peerRegistry, device_id)
                       IN /\ peerRegistry' = BroadcastReg(reg1, c)
                          /\ outbox' = BroadcastOut(reg1, c, "peer_left", device_id,
                                                    OnlineCount(reg1), "")
    /\ UNCHANGED <<order, now, lastSweep, closedSendThrows, running>>

\* ws.on('close'): the socket closed, with or without an 'error' before it
Close(c) ==
    /\ connState[c] \in {"open", "errored", "closing"}
    /\ handleDisconnection(c, "close", [connState EXCEPT ![c] = "closed"])

\* ws.on('error'): the socket failed; its 'close' event follows
Error(c) ==
    /\ connState[c] = "open"
    /\ handleDisconnection(c, "error", [connState EXCEPT ![c] = "errored"])

\* the condition under which the sweep demotes a record
Stale(peer) == now - peer.last_seen > timeout /\ peer.status = "online"

\* the loop of the interval callback from position i on: the registry it
\* leaves and the messages it delivers
RECURSIVE SweepFrom(_, _)
SweepFrom(i, reg) ==
    IF i > Len(order) THEN [reg |-> reg, out |-> <<>>]
    ELSE LET device_id == order[i]
         IN IF Stale(reg[device_id])
            THEN LET reg1 == SetOffline(reg, device_id)
                     sent == BroadcastOut(reg1, reg1[device_id].ws, "peer_left",
                                          device_id, 0, "timeout")
                     rest == SweepFrom(i + 1, BroadcastReg(reg1, reg1[device_id].ws))
                 IN [reg |-> rest.reg, out |-> sent \o rest.out]
            ELSE SweepFrom(i + 1, reg)

\* setInterval callback: demote the records not seen for more than a minute
Sweep ==
    /\ running
    /\ now - lastSweep >= sweepInterval
    /\ lastSweep' = now
    /\ peerRegistry' = SweepFrom(1, peerRegistry).reg
    /\ outbox' = SweepFrom(1, peerRegistry).out
    /\ lastOp' = [NoOp EXCEPT !.op = "sweep"]
    /\ UNCHANGED <<order, connections, connState, now, closedSendThrows, running>>

UnknownSilent(c) == <<>>

\* the reply of the default case of handleMessage
UnknownReply(c) == <<ErrorMsg(c, "unknown_type")>>

\* handleMessage, default case: a parsed message of no known type
handleUnknownType(c) ==
    /\ running
    /\ connState[c] = "open"
    /\ lastOp' = [NoOp EXCEPT !.op = "unknown", !.c = c, !.d = connections[c]]
    /\ outbox' = UnknownReply(c)
    /\ UNCHANGED <<peerRegistry, order, connections, connState, now, lastSweep,
                   closedSendThrows, running>>

MalformedSilent(c) == <<>>

\* the reply of the catch block of the 'message' listener
MalformedReply(c) == <<ErrorMsg(c, "invalid_json")>>

\* ws.on('message') when JSON.parse throws
handleMalformedFrame(c) ==
    /\ running
    /\ connState[c] = "open"
    /\ lastOp' = [NoOp EXCEPT !.op = "malformed", !.c = c, !.d = connections[c]]
    /\ outbox' = MalformedReply(c)
    /\ UNCHANGED <<peerRegistry, order, connections, connState, now, lastSweep,
                   closedSendThrows, running>>

\* the ws.send of the catch block throws in its turn: nothing catches it
ErrorReplyEscapes(c) == connState[c] # "open" /\ closedSendThrows

\* the transport of a socket closed while frames were still in its buffer:
\* the socket is no longer open and its 'close' event is yet to come
SocketClosing(c) ==
    /\ running
    /\ connState[c] = "open"
    /\ connState' = [connState EXCEPT ![c] = "closing"]
    /\ outbox' = <<>>
    /\ lastOp' = [NoOp EXCEPT !.op = "socket_closing", !.c = c, !.d = connections[c]]
    /\ UNCHANGED <<peerRegistry, order, connections, now, lastSweep,
                   closedSendThrows, running>>

\* ws.on('message') for a buffered frame that does not parse, handled before
\* the 'close' event of a socket that is no longer open
handleLateFrame(c) ==
    /\ running
    /\ connState[c] = "closing"
    /\ lastOp' = [NoOp EXCEPT !.op = "late_frame", !.c = c, !.d = connections[c]]
    /\ outbox' = <<>>
    /\ running' = ~ErrorReplyEscapes(c)
    /\ UNCHANGED <<peerRegistry, order, connections, connState, now, lastSweep,
                   closedSendThrows>>

(* --------------------------- specifications ---------------------------- *)
\* the full lifecycle: every event, on the live sockets and device ids
Next ==
    \/ \E c \in 1..LiveConns : Connect(c)
    \/ \E step \in TickSteps : Tick(step)
    \/ \E c \in 1..LiveConns, m \in RegisterInputs :
          handlePeerRegistration(c, m[1], m[2])
    \/ \E c \in 1..LiveConns : handlePeerDiscovery(c, NoFilters)
    \/ \E c \in 1..LiveConns, t \in 1..LiveIds, p \in {"P", Null} :
          handleWebRTCSignaling(c, t, p)
    \/ \E c \in 1..LiveConns, info \in BasicInfos : handleCapabilityAnnouncement(c, info)
    \/ \E c \in 1..LiveConns : handleHeartbeat(c)
    \/ \E c \in 1..LiveConns : Close(c)
    \/ \E c \in 1..LiveConns : Error(c)
    \/ \E c \in 1..LiveConns : handleUnknownType(c)
    \/ \E c \in 1..LiveConns : handleMalformedFrame(c)
    \/ Sweep

Spec == Init /\ [][Next]_vars

\* discovery: every socket registers the device id of its own number, with
\* every peer_info, and discovers with every filter; the clock stands still
NextDiscovery ==
    \/ \E c \in Conns : Connect(c)
    \/ \E c \in Conns, info \in PeerInfos : handlePeerRegistration(c, c, info)
    \/ \E c \in Conns, f \in Filters : handlePeerDiscovery(c, f)
    \/ \E c \in Conns : handleCapabilityAnnouncement(c, [caps |-> Undefined, specs |-> {"t"}])
    \/ \E c \in Conns : Close(c)

\* no send to a closed socket happens here, so one ws library is enough
InitDiscovery == Init /\ closedSendThrows = FALSE

SpecDiscovery == InitDiscovery /\ [][NextDiscovery]_vars

\* fan-out: every socket registers the device id of its own number or the
\* next one, announces and closes; the clock stands still
NextId(c) == (c % NumIds) + 1

NextBroadcast ==
    \/ \E c \in Conns : Connect(c)
    \/ \E c \in Conns : \E d \in {c, NextId(c)}, info \in BasicInfos :
          handlePeerRegistration(c, d, info)
    \/ \E c \in Conns, info \in BasicInfos : handleCapabilityAnnouncement(c, info)
    \/ \E c \in Conns : Close(c)

SpecBroadcast == Init /\ [][NextBroadcast]_vars

\* late frames: every socket registers the device id of its own number and
\* sends heartbeats; a socket may close with a frame left in its buffer
NextLateFrame ==
    \/ \E c \in Conns : Connect(c)
    \/ \E c \in Conns, info \in BasicInfos : handlePeerRegistration(c, c, info)
    \/ \E c \in Conns : handleHeartbeat(c)
    \/ \E c \in Conns : SocketClosing(c)
    \/ \E c \in Conns : handleLateFrame(c)
    \/ \E c \in Conns : Close(c)

SpecLateFrame == Init /\ [][NextLateFrame]_vars

\* a timestamp after the origin of the clock moved forward by k: whatever is
\* older than the new origin is as old as the origin
Earlier(t, k) == IF t > k THEN t - k ELSE 0

\* the clock advances without end: once Date.now() would pass MaxTime the
\* origin moves instead, which keeps every age up to MaxTime exact and every
\* greater age above the threshold
TickOn(step) ==
    /\ running
    /\ LET k == IF now + step > MaxTime THEN now + step - MaxTime ELSE 0
       IN /\ now' = now + step - k
          /\ lastSweep' = Earlier(lastSweep, k)
          /\ peerRegistry' =
                [d \in DeviceIds |->
                    [peerRegistry[d] EXCEPT !.last_seen = Earlier(@, k),
                                            !.registered_at = Earlier(@, k)]]
    /\ outbox' = <<>>
    /\ lastOp' = [NoOp EXCEPT !.op = "tick"]
    /\ UNCHANGED <<order, connections, connState, closedSendThrows, running>>

\* the life of the registry over unbounded time: registers, heartbeats and
\* closes, the clock advancing by the period of the interval timer
NextLive ==
    \/ \E c \in 1..LiveConns : Connect(c)
    \/ \E c \in 1..LiveConns, d \in 1..LiveIds, info \in BasicInfos :
          handlePeerRegistration(c, d, info)
    \/ \E c \in 1..LiveConns : handleHeartbeat(c)
    \/ \E c \in 1..LiveConns : Close(c)
    \/ TickOn(sweepInterval)
    \/ Sweep

\* time advances and the interval timer fires
SpecLive ==
    Init /\ [][NextLive]_vars /\ WF_vars(TickOn(sweepInterval)) /\ WF_vars(Sweep)

(* ------------------------------ properties ------------------------------ *)
\* positions of the messages of one kind about one device delivered to a socket
Delivered(box, to, type, dev) ==
    {i \in 1..Len(box) : box[i].to = to /\ box[i].type = type /\ box[i].dev = dev}

\* positions of all messages of one kind
OfType(box, type) == {i \in 1..Len(box) : box[i].type = type}

Known(reg) == {d \in DeviceIds : reg[d].status # "none"}
Online(reg) == {d \in DeviceIds : reg[d].status = "online"}

ValidRegister(op) == op.op = "register" /\ op.d # NoId /\ op.info # NoInfo

\* C1: every Online record is bound to exactly one open connection, which is
\* the only connection acting under its device_id, and no connection is bound
\* to an Offline record.
C1_OnlineBoundOfflineUnbound ==
    \A d \in DeviceIds :
        /\ peerRegistry[d].status = "online" =>
              /\ connState[peerRegistry[d].ws] = "open"
              /\ {c \in Conns : connections[c] = d} = {peerRegistry[d].ws}
        /\ peerRegistry[d].status = "offline" =>
              {c \in Conns : connections[c] = d} = {}

\* C2: after the close or error of a connection was handled, a discover never
\* returns and a signal is never forwarded to a record still bound to it.
C2_NoPhantomAfterClose ==
    /\ lastOp.op = "discover" =>
          \A i \in OfType(outbox, "discovery_result") :
              \A k \in 1..Len(outbox[i].peers) :
                  connState[peerRegistry[outbox[i].peers[k]].ws] = "open"
    /\ (/\ lastOp.op = "signal"
        /\ lastOp.d # NoId
        /\ lastOp.payload # Null
        /\ peerRegistry[lastOp.target].status # "none"
        /\ connState[peerRegistry[lastOp.target].ws] # "open")
       => outbox = <<ErrorMsg(lastOp.c, "target_unreachable")>>

\* C3: after a register with a device_id and a peer_info the record is Online
\* and bound to the sending connection, and the registered reply carries the
\* number of records, Online and Offline together.
C3_RegisterOnlineAndCount ==
    ValidRegister(lastOp) =>
        /\ peerRegistry[lastOp.d].status = "online"
        /\ peerRegistry[lastOp.d].ws = lastOp.c
        /\ connections[lastOp.c] = lastOp.d
        /\ Cardinality(OfType(outbox, "registered")) = 1
        /\ \A i \in OfType(outbox, "registered") :
              /\ outbox[i].to = lastOp.c
              /\ outbox[i].dev = lastOp.d
              /\ outbox[i].n = Cardinality(Known(peerRegistry))

C3_Witness ==
    /\ ValidRegister(lastOp)
    /\ \E i \in OfType(outbox, "registered") : outbox[i].n = 2
    /\ Cardinality(Online(peerRegistry)) = 1
    /\ \E d \in DeviceIds : peerRegistry[d].status = "offline"

\* C4: a successful register of B delivers exactly one peer_joined to every
\* Online record A other than B, and none to B.
C4_OneJoinedPerOnlinePeer ==
    [][ValidRegister(lastOp') =>
          /\ Delivered(outbox', lastOp'.c, "peer_joined", lastOp'.d) = {}
          /\ \A a \in Online(peerRegistry) \ {lastOp'.d} :
                Cardinality(Delivered(outbox', peerRegistry[a].ws, "peer_joined",
                                      lastOp'.d)) = 1]_vars

\* what Array.includes finds in a capability field: nothing when it is undefined
AsSet(field) == IF field = Undefined THEN {} ELSE field

\* the device ids listed by the discovery_result in the outbox
Found == {outbox[1].peers[k] : k \in 1..Len(outbox[1].peers)}

Discovered ==
    /\ lastOp.op = "discover"
    /\ lastOp.d # NoId

\* C5: discover by a registered requester A with required_capabilities R
\* returns only Online records other than A whose capabilities contain all of
\* R, and, with no specializations filter, all of them.
C5_DiscoverAllCapabilities ==
    Discovered =>
        LET R == AsSet(lastOp.filters.required_capabilities)
            expected == {p \in Online(peerRegistry) \ {lastOp.d} :
                            R \subseteq AsSet(peerRegistry[p].caps)}
        IN /\ Len(outbox) = 1
           /\ outbox[1].type = "discovery_result"
           /\ outbox[1].to = lastOp.c
           /\ Len(outbox[1].peers) = Cardinality(Found)
           /\ Found \subseteq expected
           /\ lastOp.filters.specializations = Undefined => Found = expected

C5_Witness ==
    /\ Discovered
    /\ lastOp.filters = [required_capabilities |-> {"x", "y"},
                         specializations |-> Undefined, min_reputation |-> Undefined]
    /\ Cardinality(Found) = 1
    /\ \E p \in Online(peerRegistry) \ {lastOp.d} :
          /\ p \notin Found
          /\ peerRegistry[p].caps = {"x"}
    /\ peerRegistry[lastOp.d].caps = {"x", "y"}

\* C6: the specializations filter is satisfied when it is absent or empty or
\* when one listed specialization is among the record's; with no capability
\* constraint discover returns exactly the other Online records satisfying it.
C6_SpecializationsAnyOrEmpty ==
    (Discovered /\ lastOp.filters.required_capabilities \in {Undefined, {}}) =>
        LET S == lastOp.filters.specializations
        IN Found = {p \in Online(peerRegistry) \ {lastOp.d} :
                       \/ S = Undefined
                       \/ S = {}
                       \/ S \cap AsSet(peerRegistry[p].specs) # {}}

\* C7: a signal from a registered connection to a device_id with no record or
\* an Offline record is answered with one error to the sender and delivers no
\* webrtc_signal.
C7_UnreachableTargetError ==
    (/\ lastOp.op = "signal"
     /\ lastOp.d # NoId
     /\ peerRegistry[lastOp.target].status # "online")
    => /\ outbox = <<ErrorMsg(lastOp.c, "target_unreachable")>>
       /\ OfType(outbox, "webrtc_signal") = {}

C7_Witness ==
    /\ lastOp.op = "signal"
    /\ lastOp.d # NoId
    /\ lastOp.payload = "P"
    /\ peerRegistry[lastOp.target].status = "offline"
    /\ Len(outbox) = 1
    /\ outbox[1].type = "error"

\* C8: a signal with payload P from registered, Online A to Online B delivers
\* exactly one webrtc_signal, to B's connection, with from_device_id A and
\* payload P, and no error to A.
C8_SignalDeliveredOnce ==
    (/\ lastOp.op = "signal"
     /\ lastOp.d # NoId
     /\ lastOp.payload # Null
     /\ peerRegistry[lastOp.d].status = "online"
     /\ peerRegistry[lastOp.target].status = "online")
    => outbox = <<Msg(peerRegistry[lastOp.target].ws, "webrtc_signal", lastOp.d,
                      0, "", lastOp.payload, <<>>)>>

\* C9: handling the closure of a bound connection sets its record Offline,
\* removes the binding, lowers the online count by one and sends one peer_left
\* with the device_id and the new online count to every remaining Online peer.
C9_CloseDemotesAndAnnounces ==
    [][(lastOp'.op \in {"close", "error"} /\ connections[lastOp'.c] # NoId) =>
          LET d == connections[lastOp'.c]
          IN /\ peerRegistry'[d].status = "offline"
             /\ connections'[lastOp'.c] = NoId
             /\ OnlineCount(peerRegistry') = OnlineCount(peerRegistry) - 1
             /\ \A p \in Online(peerRegistry') :
                   /\ Cardinality(Delivered(outbox', peerRegistry'[p].ws,
                                            "peer_left", d)) = 1
                   /\ \A i \in Delivered(outbox', peerRegistry'[p].ws, "peer_left", d) :
                         outbox'[i].n = OnlineCount(peerRegistry')]_vars

\* C10: a sweep sets every Online record older than the threshold Offline and
\* sends a peer_left with reason timeout for it to every other record that is
\* Online; it leaves every other record unchanged.
C10_SweepDemotesStaleOnly ==
    [][lastOp'.op = "sweep" =>
          \A d \in Known(peerRegistry) :
              IF peerRegistry[d].status = "online"
                 /\ now - peerRegistry[d].last_seen > 60
              THEN /\ peerRegistry'[d].status = "offline"
                   /\ \A p \in Online(peerRegistry') :
                         \E i \in Delivered(outbox', peerRegistry'[p].ws,
                                            "peer_left", d) :
                             outbox'[i].text = "timeout"
              ELSE peerRegistry'[d] = peerRegistry[d]]_vars

\* C11: a sweep never demotes a record whose most recent heartbeat was handled
\* no more than the threshold before it; here the heartbeat is the event
\* handled right before the sweep.
C11_SweepSparesFreshHeartbeat ==
    [][(/\ lastOp.op = "heartbeat"
        /\ lastOp.d # NoId
        /\ lastOp'.op = "sweep")
       => peerRegistry'[lastOp.d].status = "online"]_vars

\* C12: from the register that bound device_id to a connection on, a signal
\* addressed to it is delivered to that connection, and only there, for as
\* long as the connection is open, acts under the device_id and the record
\* has not timed out; the registry holds the device_id once.
C12_SignalsFollowLatestBinding ==
    /\ Len(order) = Cardinality(Known(peerRegistry))
    /\ (/\ lastOp.op = "signal"
        /\ lastOp.d # NoId
        /\ lastOp.payload # Null
        /\ peerRegistry[lastOp.target].status # "none"
        /\ connState[peerRegistry[lastOp.target].ws] = "open"
        /\ connections[peerRegistry[lastOp.target].ws] = lastOp.target
        /\ now - peerRegistry[lastOp.target].last_seen <= 60)
       => outbox = <<Msg(peerRegistry[lastOp.target].ws, "webrtc_signal",
                         lastOp.d, 0, "", lastOp.payload, <<>>)>>

\* C13: discover, signal, announce_capability and heartbeat on a connection
\* that never registered are answered with the error Not registered, which
\* is all that is sent.
C13_UnregisteredGetsError ==
    (/\ lastOp.op \in {"discover", "signal", "announce_capability", "heartbeat"}
     /\ lastOp.d = NoId)
    => outbox = <<ErrorMsg(lastOp.c, "not_registered")>>

\* C14: discover and signal are answered with the error Not registered when
\* the record the requester registered is Offline, the connection still open.
C14_DemotedRequesterGetsError ==
    (/\ lastOp.op \in {"discover", "signal"}
     /\ lastOp.d # NoId
     /\ peerRegistry[lastOp.d].status = "offline")
    => outbox = <<ErrorMsg(lastOp.c, "not_registered")>>

C16_MalformedOnlyError ==
    [][lastOp'.op = "malformed" =>
          /\ outbox' = <<ErrorMsg(lastOp'.c, "invalid_json")>>
          /\ peerRegistry' = peerRegistry
          /\ order' = order
          /\ connections' = connections
          /\ connState' = connState
          /\ connState'[lastOp'.c] = "open"]_vars

C16_Witness ==
    /\ lastOp.op = "malformed"
    /\ lastOp.d = NoId
    /\ Len(outbox) = 1
    /\ outbox[1].text = "invalid_json"
    /\ outbox[1].to = lastOp.c
    /\ Online(peerRegistry) # {}

\* C17: when a signal passes both checks and the send to the target's socket
\* fails, the target's record ends Offline, a peer_left for it is sent and the
\* sender gets no error.
C17_FailedRelayDemotesTarget ==
    [][(/\ lastOp'.op = "signal"
        /\ lastOp'.d # NoId
        /\ lastOp'.payload # Null
        /\ peerRegistry[lastOp'.target].status = "online"
        /\ connState[peerRegistry[lastOp'.target].ws] # "open")
       => /\ peerRegistry'[lastOp'.target].status = "offline"
          /\ \A p \in Online(peerRegistry') :
                Delivered(outbox', peerRegistry'[p].ws, "peer_left",
                          lastOp'.target) # {}
          /\ OfType(outbox', "error") = {}]_vars

\* the step is a handler that ends in one call of broadcastToAllExcept
BroadcastStep ==
    \/ ValidRegister(lastOp')
    \/ lastOp'.op \in {"announce_capability", "close", "error"} /\ lastOp'.d # NoId

BroadcastType ==
    IF lastOp'.op = "register" THEN "peer_joined"
    ELSE IF lastOp'.op = "announce_capability" THEN "peer_updated"
    ELSE "peer_left"

\* the records the loop of that call sends to
BroadcastRecipients ==
    {p \in Online(peerRegistry) :
        /\ peerRegistry[p].ws # lastOp'.c
        /\ lastOp'.op # "announce_capability" => p # lastOp'.d}

\* C18: in a broadcast every recipient on an open socket gets the event once,
\* whatever happens to the sends to the others, and a recipient whose send
\* threw is Offline when the broadcast is over.
C18_BroadcastIsolatesFailures ==
    [][BroadcastStep =>
          \A p \in BroadcastRecipients :
              IF connState[peerRegistry[p].ws] = "open"
              THEN Cardinality(Delivered(outbox', peerRegistry[p].ws,
                                         BroadcastType, lastOp'.d))
                   = Cardinality({q \in BroadcastRecipients :
                                     peerRegistry[q].ws = peerRegistry[p].ws})
              ELSE closedSendThrows => peerRegistry'[p].status = "offline"]_vars

\* the peer_left of a close counts the Online records before its broadcast:
\* more than are Online afterwards means a send threw in this broadcast
C18_Witness ==
    /\ lastOp.op = "close"
    /\ closedSendThrows
    /\ \E i \in OfType(outbox, "peer_left") :
          /\ outbox[i].n > Cardinality(Online(peerRegistry))
          /\ connState[outbox[i].to] = "open"

\* C19: when a broadcast sets a recipient Offline because the send to it
\* failed, a peer_left naming that recipient is delivered to every peer that
\* is still Online.
C19_FollowUpPeerLeft ==
    [][BroadcastStep =>
          \A p \in BroadcastRecipients :
              peerRegistry'[p].status = "offline" =>
                  \A q \in Online(peerRegistry') :
                      Delivered(outbox', peerRegistry'[q].ws, "peer_left", p) # {}]_vars

\* C20: no step removes a record: the device ids with a record only grow, the
\* count sent in registered and heartbeat_ack is their number, and a close, an
\* error or a sweep changes nothing of a record but its status, to Offline.
C20_RecordsNeverRemoved ==
    [][/\ Known(peerRegistry) \subseteq Known(peerRegistry')
       /\ Len(order') >= Len(order)
       /\ Len(order') = Cardinality(Known(peerRegistry'))
       /\ \A i \in OfType(outbox', "registered") \cup OfType(outbox', "heartbeat_ack") :
             outbox'[i].n = Cardinality(Known(peerRegistry'))
       /\ lastOp'.op \in {"close", "error", "sweep"} =>
             \A d \in DeviceIds :
                 \/ peerRegistry'[d] = peerRegistry[d]
                 \/ peerRegistry'[d] = [peerRegistry[d] EXCEPT !.status = "offline"]]_vars

C20_Witness ==
    /\ lastOp.op = "close"
    /\ lastOp.d # NoId
    /\ peerRegistry[lastOp.d].status = "offline"
    /\ Cardinality(Known(peerRegistry)) = 2
    /\ Online(peerRegistry) = {}

\* C21: the count in a heartbeat_ack is the number of records that are Online
\* when the heartbeat is handled.
C21_AckCountsOnline ==
    (lastOp.op = "heartbeat" /\ lastOp.d # NoId) =>
        /\ Cardinality(OfType(outbox, "heartbeat_ack")) = 1
        /\ \A i \in OfType(outbox, "heartbeat_ack") :
              outbox[i].n = Cardinality(Online(peerRegistry))

\* C22: a register of a device_id that has a record, Online or Offline, from
\* any connection, sets it Online and refreshes last_seen but leaves
\* registered_at as it was.
C22_RegisteredAtSetOnce ==
    [][(ValidRegister(lastOp') /\ peerRegistry[lastOp'.d].status # "none") =>
          /\ peerRegistry'[lastOp'.d].status = "online"
          /\ peerRegistry'[lastOp'.d].last_seen = now
          /\ peerRegistry'[lastOp'.d].registered_at
                = peerRegistry[lastOp'.d].registered_at]_vars

\* C23: after a discover, signal, announce_capability or heartbeat handled for
\* a registered connection the last_seen of its record is the current time.
C23_EveryMessageRefreshes ==
    (/\ lastOp.op \in {"discover", "signal", "announce_capability", "heartbeat"}
     /\ lastOp.d # NoId)
    => peerRegistry[lastOp.d].last_seen = now

\* C24: announce_capability from a registered connection overwrites the
\* record's capabilities and specializations with the supplied values, an
\* absent one becoming empty, leaves status, registered_at and the bindings as
\* they were, and sends one peer_updated to every other Online peer and none
\* to the sender.
C24_AnnounceOverwritesAndNotifies ==
    [][(lastOp'.op = "announce_capability" /\ lastOp'.d # NoId) =>
          LET d == lastOp'.d
          IN /\ peerRegistry'[d].caps = AsSet(lastOp'.info.caps)
             /\ peerRegistry'[d].specs = AsSet(lastOp'.info.specs)
             /\ peerRegistry'[d].status = peerRegistry[d].status
             /\ peerRegistry'[d].registered_at = peerRegistry[d].registered_at
             /\ peerRegistry'[d].ws = peerRegistry[d].ws
             /\ connections' = connections
             /\ Delivered(outbox', lastOp'.c, "peer_updated", d) = {}
             /\ \A p \in Online(peerRegistry) \ {d} :
                   Cardinality(Delivered(outbox', peerRegistry[p].ws,
                                         "peer_updated", d)) = 1]_vars

\* C25: a discover, answered with a result or with an error, leaves the
\* registry and the bindings as they were and sends to nobody but the
\* requester.
C25_DiscoverMutatesNothing ==
    [][lastOp'.op = "discover" =>
          /\ peerRegistry' = peerRegistry
          /\ order' = order
          /\ connections' = connections
          /\ connState' = connState
          /\ Len(outbox') = 1
          /\ \A i \in 1..Len(outbox') : outbox'[i].to = lastOp'.c]_vars

C25_Witness ==
    /\ Discovered
    /\ Found # {}
    /\ now > peerRegistry[lastOp.d].last_seen
    /\ \E p \in Found : connState[peerRegistry[p].ws] = "open"

\* C26: whatever frame is handled, on whatever connection, no failure escapes
\* the handlers and ends the process: the service goes on serving the others.
C26_NoFrameTerminatesService == running

\* C27: the close event of a connection whose error event was handled changes
\* neither registry nor bindings and sends nothing: the peer_left of the error
\* event stays the only one.
C27_SecondClosureIsNoOp ==
    [][(lastOp'.op = "close" /\ connState[lastOp'.c] = "errored") =>
          /\ peerRegistry' = peerRegistry
          /\ order' = order
          /\ connections' = connections
          /\ outbox' = <<>>]_vars

\* a socket that has a record and no binding when it closes had its error
\* event handled before; another peer is there to hear a second peer_left
C27_Witness ==
    /\ lastOp.op = "close"
    /\ lastOp.d = NoId
    /\ \E d \in Known(peerRegistry) : peerRegistry[d].ws = lastOp.c
    /\ \E p \in Online(peerRegistry) :
          /\ peerRegistry[p].ws # lastOp.c
          /\ connState[peerRegistry[p].ws] = "open"

\* C28: at most one record that is Online has a given connection as its
\* connection.
C28_OneIdentityPerConnection ==
    \A c \in Conns :
        Cardinality({d \in Online(peerRegistry) : peerRegistry[d].ws = c}) <= 1

\* C29: a record's status changes from Online to Offline only in a close, an
\* error or a sweep, and to Online only in a register of its device_id.
C29_StatusTransitions ==
    [][\A d \in DeviceIds :
          peerRegistry'[d].status # peerRegistry[d].status =>
              \/ /\ peerRegistry[d].status = "online"
                 /\ peerRegistry'[d].status = "offline"
                 /\ lastOp'.op \in {"close", "error", "sweep"}
              \/ /\ peerRegistry'[d].status = "online"
                 /\ ValidRegister(lastOp')
                 /\ lastOp'.d = d]_vars

\* C30: the peers a discover returns are the peers it would return with any
\* other min_reputation, or none, in its filters.
C30_MinReputationIgnored ==
    Discovered =>
        \A r \in ReputationValues :
            outbox[1].peers
              = AvailablePeers(lastOp.d, [lastOp.filters EXCEPT !.min_reputation = r])

C30_Witness ==
    /\ Discovered
    /\ lastOp.filters.min_reputation = {"0.8"}
    /\ lastOp.filters.required_capabilities = {"x", "y"}
    /\ Found # {}
    /\ \E p \in Online(peerRegistry) \ {lastOp.d} : p \notin Found

\* C31: a register without device_id or without peer_info is answered with
\* one error and nothing else happens: no record is made or changed, the
\* connection gets no binding and nobody else is sent anything.
C31_IncompleteRegisterOnlyError ==
    [][(lastOp'.op = "register" /\ ~ValidRegister(lastOp')) =>
          /\ outbox' = <<ErrorMsg(lastOp'.c, "missing")>>
          /\ peerRegistry' = peerRegistry
          /\ order' = order
          /\ connections' = connections]_vars

C31_Witness ==
    /\ lastOp.op = "register"
    /\ lastOp.d # NoId
    /\ lastOp.info = NoInfo
    /\ connections[lastOp.c] = NoId
    /\ peerRegistry[lastOp.d].status = "none"
    /\ \E p \in Online(peerRegistry) : connState[peerRegistry[p].ws] = "open"

\* C32: a heartbeat from a bound connection sets the record's last_seen to the
\* current time and its status Online, is answered with one heartbeat_ack to
\* the sender, and changes no other record, field or binding and sends nothing
\* else.
C32_HeartbeatTouchesOneRecord ==
    [][(lastOp'.op = "heartbeat" /\ lastOp'.d # NoId) =>
          /\ peerRegistry'[lastOp'.d].last_seen = now
          /\ peerRegistry'[lastOp'.d].status = "online"
          /\ \A d \in DeviceIds :
                /\ d # lastOp'.d => peerRegistry'[d] = peerRegistry[d]
                /\ peerRegistry'[d].caps = peerRegistry[d].caps
                /\ peerRegistry'[d].specs = peerRegistry[d].specs
                /\ peerRegistry'[d].ws = peerRegistry[d].ws
                /\ peerRegistry'[d].registered_at = peerRegistry[d].registered_at
          /\ order' = order
          /\ connections' = connections
          /\ Len(outbox') = 1
          /\ outbox'[1].type = "heartbeat_ack"
          /\ outbox'[1].to = lastOp'.c]_vars

\* a heartbeat later than the record's registration, next to another Online
\* record whose last_seen stays in the past
C32_Witness ==
    /\ lastOp.op = "heartbeat"
    /\ lastOp.d # NoId
    /\ peerRegistry[lastOp.d].last_seen = now
    /\ peerRegistry[lastOp.d].registered_at < now
    /\ \E p \in Online(peerRegistry) \ {lastOp.d} : peerRegistry[p].last_seen < now

\* C33: when the record of the device_id a closing connection acts under is
\* Online on another, open connection that registered it later, the close or
\* error leaves the record Online on that connection and sends no peer_left
\* for it.
C33_ClosingOldSessionSparesNew ==
    [][(/\ lastOp'.op \in {"close", "error"}
        /\ connections[lastOp'.c] # NoId
        /\ peerRegistry[connections[lastOp'.c]].status = "online"
        /\ peerRegistry[connections[lastOp'.c]].ws # lastOp'.c
        /\ connState[peerRegistry[connections[lastOp'.c]].ws] = "open"
        /\ connections[peerRegistry[connections[lastOp'.c]].ws] = connections[lastOp'.c])
       => LET d == connections[lastOp'.c]
          IN /\ peerRegistry'[d] = peerRegistry[d]
             /\ \A i \in OfType(outbox', "peer_left") : outbox'[i].dev # d]_vars

\* C34: a connection whose device_id was registered by another connection
\* after it no longer acts under it: its heartbeat and announce_capability
\* leave that record as it was and its signal is not relayed.
C34_OldSessionLosesIdentity ==
    [][(/\ lastOp'.op \in {"heartbeat", "announce_capability", "signal"}
        /\ lastOp'.d # NoId
        /\ peerRegistry[lastOp'.d].ws # lastOp'.c)
       => /\ peerRegistry'[lastOp'.d] = peerRegistry[lastOp'.d]
          /\ \A i \in OfType(outbox', "webrtc_signal") :
                outbox'[i].dev # lastOp'.d]_vars

\* C35: a peer_left for a device_id is sent only in a step that takes its
\* record from Online to Offline.
C35_PeerLeftOncePerDeparture ==
    [][\A i \in OfType(outbox', "peer_left") :
          /\ peerRegistry[outbox'[i].dev].status = "online"
          /\ peerRegistry'[outbox'[i].dev].status = "offline"]_vars

\* C36: a record that is Online while the connection stored in it is closed
\* is eventually Offline or stored with an open connection.
C36_ClosedSocketRecordDemoted ==
    \A d \in DeviceIds :
        (/\ peerRegistry[d].status = "online"
         /\ connState[peerRegistry[d].ws] = "closed")
        ~> (\/ peerRegistry[d].status = "offline"
            \/ /\ peerRegistry[d].status = "online"
               /\ connState[peerRegistry[d].ws] = "open")

\* C37: the from_device_id of a delivered webrtc_signal is the device_id of
\* the sender's binding, which only a register of that connection sets.
C37_SignalCarriesBoundIdentity ==
    [][/\ \A c \in Conns :
             (connections'[c] # connections[c] /\ connections'[c] # NoId) =>
                 /\ ValidRegister(lastOp')
                 /\ lastOp'.c = c
                 /\ connections'[c] = lastOp'.d
       /\ lastOp'.op = "signal" =>
             \A i \in OfType(outbox', "webrtc_signal") :
                 /\ connections[lastOp'.c] # NoId
                 /\ outbox'[i].dev = connections[lastOp'.c]
                 /\ outbox'[i].payload = lastOp'.payload]_vars

C37_Witness ==
    /\ lastOp.op = "signal"
    /\ OfType(outbox, "webrtc_signal") # {}
    /\ lastOp.target # lastOp.d
    /\ outbox[1].dev = lastOp.d
    /\ outbox[1].to # lastOp.c

\* C38: the error Invalid JSON format is sent only for a frame that does not
\* parse.
C38_MalformedErrorOnlyForUnparseable ==
    \A i \in OfType(outbox, "error") :
        outbox[i].text = "invalid_json" => lastOp.op = "malformed"

TypeOK ==
    /\ Len(order) <= NumIds
    /\ now \in 0..MaxTime

====
